---- MODULE Spec2Model ----
(***************************************************************************)
(* NewsTrace: the market-outcome tracker (src/src/market_tracker.py), the  *)
(* tracking scheduler (src/src/tracking_scheduler.py) and the weight       *)
(* evolver (src/src/weight_evolver.py) over their tables.                  *)
(*                                                                         *)
(* Time is kept at the resolution the code computes with: `now` is the     *)
(* calendar day of datetime.now(), and a timestamp column holds the day it *)
(* was written.  Any number of invocations may happen on one day.          *)
(* A nullable column is NULL (the empty tuple) or Some(v).  A float that   *)
(* the code computes as a quotient a / b is kept exactly, as the pair      *)
(* <<a, b>> with b > 0, and compared by cross-multiplication.              *)
(***************************************************************************)
EXTENDS Integers, Sequences, FiniteSets, TLC

\* ---------------------------------------------------------------- bounds
\* rows of market_tracking
MaxTasks == 1
\* the last day of the modelled window; later days are like it for every task
\* created early enough to see its T+7 day inside the window
MaxDay == 8
\* alerts counted per task and alert type
MaxAlerts == 2
\* rows of market_tracking the evolver starts from
NRows == 6
\* evolution cycles
MaxCycles == 2
\* rows of tracking_tasks
MaxRows == 2
\* rows of price_history
MaxHistory == 2
\* batches of up to MaxBatch samples, next to the batches of the tests
MaxBatch == 2
\* calls of StrategyUpdater.evolve that are watched
MaxUpdates == 2
\* cycles of the drill batch before the second watch
WarmupCalls == 41

\* ------------------------------------------------------ program constants
T1Offset == 1
T3Offset == 3
T7Offset == 7
\* config duration_days, default 7
duration_days == 7
\* the price _get_current_price returns when the quote cannot be read
FallbackPrice == 100

\* ------------------------------------------------------------ input sets
Quotes == {90}
NewsIds == {"n1", "n2"}
TickerLists == {<<"600000.SH">>, <<"600000.SH", "000001.SZ">>}
Regimes == {"Neutral"}

VARIABLES
    now,                  \* datetime.now().date(), as a day number
    db_type,              \* Database.db_type
    market_tracking,      \* table market_tracking; tracking_id is the index
    alerts,               \* per task, the drawdown alerts raised so far, by alert type
    news,                 \* table news: news_id -> ai_audit_result
    weight_evolution_log, \* table weight_evolution_log, oldest snapshot first
    evolution_log,        \* what _log_evolution has logged, oldest entry first
    enabled,              \* WeightEvolver.enabled
    returned,             \* the last call of the evolver: its arguments and result
    tracking_tasks,       \* table tracking_tasks of TrackingScheduler, in insertion order
    price_history,        \* table price_history, in insertion order
    closed_log,           \* what check_and_close_completed of TrackingScheduler logged
    config,               \* StrategyUpdater.config, a DynamicConfig
    called,               \* the last call of the strategy updater and its argument
    update_run,           \* a run of update_all_prices in progress: its position and locals
    close_run             \* a run of check_and_close_completed in progress: its position and locals

evolverVars == <<news, weight_evolution_log, evolution_log, enabled, returned>>

schedulerVars == <<tracking_tasks, price_history, closed_log>>

strategyVars == <<config, called>>

runVars == <<update_run, close_run>>

vars == <<now, db_type, market_tracking, alerts, evolverVars, schedulerVars, strategyVars,
          runVars>>

\* no run of the job is in progress
NoRun == [pc |-> "idle"]

\* ------------------------------------------------------- nullable values
NULL == <<>>
Some(v) == <<v>>
Val(x) == x[1]
IsSet(x) == x # NULL
\* Python truthiness of a nullable number: None and 0 are false
Truthy(x) == x # NULL /\ Val(x) # 0

\* ------------------------------------------------------ exact quotients
Ratio(a, b) == <<a, b>>
RLt(x, y) == x[1] * y[2] < y[1] * x[2]
REq(x, y) == x[1] * y[2] = y[1] * x[2]
RMin(x, y) == IF RLt(y, x) THEN y ELSE x
\* a literal such as -0.03, as -3 / 100
Percent(n) == Ratio(n, 100)

\* datetime.date(): the calendar day of a timestamp
Date(ts) == ts

\* --------------------------------------------------------- MarketTracker
\* PriceSource read: Some(quote), or NULL when the read fails or is empty
Reads == {NULL} \cup {Some(q) : q \in Quotes}

_get_current_price(read) == IF read = NULL THEN FallbackPrice ELSE Val(read)

\* NewTracking, had the INSERT stored the status closed
NewTrackingClosed(news_id, ticker, t0_price, t0_timestamp, market_regime) ==
    [news_id |-> news_id, ticker |-> ticker,
     price_t0 |-> Some(t0_price), t0_timestamp |-> Some(t0_timestamp),
     market_regime |-> market_regime, status |-> "closed",
     price_t1 |-> NULL, t1_timestamp |-> NULL,
     price_t3 |-> NULL, t3_timestamp |-> NULL,
     price_t7 |-> NULL, t7_timestamp |-> NULL,
     max_drawdown |-> NULL, final_pnl |-> NULL, evolved |-> NULL]

NewTracking(news_id, ticker, t0_price, t0_timestamp, market_regime) ==
    [news_id |-> news_id, ticker |-> ticker,
     price_t0 |-> Some(t0_price), t0_timestamp |-> Some(t0_timestamp),
     market_regime |-> market_regime, status |-> "active",
     price_t1 |-> NULL, t1_timestamp |-> NULL,
     price_t3 |-> NULL, t3_timestamp |-> NULL,
     price_t7 |-> NULL, t7_timestamp |-> NULL,
     max_drawdown |-> NULL, final_pnl |-> NULL, evolved |-> NULL]

\* the alert counts of a task for which no alert was raised
NoAlerts == [T1 |-> 0, T3 |-> 0]

RECURSIVE InsertTrackings(_, _, _, _, _, _, _)
InsertTrackings(table, news_id, tickers, market_regime, read, insertOk, i) ==
    IF i > Len(tickers) THEN table
    ELSE InsertTrackings(
            IF insertOk[i]
            THEN Append(table, NewTracking(news_id, tickers[i],
                            _get_current_price(read[i]), now, market_regime))
            ELSE table,
            news_id, tickers, market_regime, read, insertOk, i + 1)

create_tracking(news_id, tickers, market_regime, read, insertOk) ==
    LET table == InsertTrackings(market_tracking, news_id, tickers,
                                 market_regime, read, insertOk, 1)
    IN  /\ Len(table) <= MaxTasks
        /\ now + T7Offset < MaxDay
        /\ market_tracking' = table
        /\ alerts' = [id \in DOMAIN table |->
                        IF id \in DOMAIN alerts THEN alerts[id] ELSE NoAlerts]
        /\ UNCHANGED <<runVars, strategyVars, now, db_type, evolverVars, schedulerVars>>

_get_active_trackings ==
    {id \in DOMAIN market_tracking : market_tracking[id].status = "active"}

\* an update that writes the price and leaves the timestamp
PriceWithoutTimestamp(tr, price_col, timestamp_col, price) ==
    [tr EXCEPT ![price_col] = Some(price)]

\* UPDATE market_tracking SET {price_col} = %s, {timestamp_col} = NOW(): one statement
_update_price_snapshot(tr, price_col, timestamp_col, price) ==
    [tr EXCEPT ![price_col] = Some(price), ![timestamp_col] = Some(now)]

\* the drawdown of one price against t0, (price - t0) / t0
Drawdown(price, t0) == Ratio(price - t0, t0)

_calculate_and_save_metrics(tr) ==
    LET t0 == tr.price_t0
        prices == <<tr.price_t0, tr.price_t1, tr.price_t3, tr.price_t7>>
        set == SelectSeq(prices, IsSet)
        dd[i \in 0..Len(set)] ==
            IF i = 0 THEN Ratio(0, 1)
            ELSE RMin(dd[i - 1], Drawdown(Val(set[i]), Val(t0)))
        pnl == IF Truthy(tr.price_t7) /\ Truthy(t0)
               THEN Ratio(Val(tr.price_t7) - Val(t0), Val(t0))
               ELSE Ratio(0, 1)
    IN  IF Len(set) < 2 THEN tr
        ELSE [tr EXCEPT !.max_drawdown = Some(dd[Len(set)]),
                        !.final_pnl = Some(pnl)]

\* AlertDue, had the test been return <= threshold
AlertDueAtThreshold(tr, price, threshold) ==
    /\ Truthy(tr.price_t0)
    /\ Val(tr.price_t0) > 0
    /\ ~RLt(threshold, Drawdown(price, Val(tr.price_t0)))

\* whether the alert test t0_price and t0_price > 0 and return < threshold passes
AlertDue(tr, price, threshold) ==
    /\ Truthy(tr.price_t0)
    /\ Val(tr.price_t0) > 0
    /\ RLt(Drawdown(price, Val(tr.price_t0)), threshold)

Outcomes == {"ok", "snapshot_fails", "metrics_fail"}

day_offset(tr) == Date(now) - Date(Val(tr.t0_timestamp))

\* UpdatedTracking, had the T+3 capture computed the metrics as the T+7 capture does
UpdatedTrackingMetricsAtT3(tr, read, outcome) ==
    LET current_price == _get_current_price(read)
        d == day_offset(tr)
    IN  IF outcome = "snapshot_fails" THEN tr
        ELSE IF d = T1Offset
             THEN _update_price_snapshot(tr, "price_t1", "t1_timestamp", current_price)
        ELSE IF d = T3Offset
             THEN _calculate_and_save_metrics(
                    _update_price_snapshot(tr, "price_t3", "t3_timestamp", current_price))
        ELSE IF d = T7Offset
             THEN _calculate_and_save_metrics(
                    _update_price_snapshot(tr, "price_t7", "t7_timestamp", current_price))
        ELSE tr

\* one iteration of the loop of update_all_prices: the row afterwards
UpdatedTracking(tr, read, outcome) ==
    LET current_price == _get_current_price(read)
        d == day_offset(tr)
    IN  IF outcome = "snapshot_fails" THEN tr
        ELSE IF d = T1Offset
             THEN _update_price_snapshot(tr, "price_t1", "t1_timestamp", current_price)
        ELSE IF d = T3Offset
             THEN _update_price_snapshot(tr, "price_t3", "t3_timestamp", current_price)
        ELSE IF d = T7Offset
             THEN LET snap == _update_price_snapshot(tr, "price_t7", "t7_timestamp",
                                                     current_price)
                  IN  IF outcome = "metrics_fail" THEN snap
                      ELSE _calculate_and_save_metrics(snap)
        ELSE tr

\* one iteration of the loop of update_all_prices: the alerts of the task afterwards
_trigger_drawdown_alert(raised, tr, read, outcome) ==
    LET current_price == _get_current_price(read)
        d == day_offset(tr)
    IN  IF outcome = "snapshot_fails" THEN raised
        ELSE IF d = T1Offset /\ AlertDue(tr, current_price, Percent(-3))
             THEN [raised EXCEPT !.T1 = @ + 1]
        ELSE IF d = T3Offset /\ AlertDue(tr, current_price, Percent(-5))
             THEN [raised EXCEPT !.T3 = @ + 1]
        ELSE raised

update_all_prices(read, outcome) ==
    /\ market_tracking' =
         [id \in DOMAIN market_tracking |->
            IF id \in _get_active_trackings
            THEN UpdatedTracking(market_tracking[id], read[id], outcome[id])
            ELSE market_tracking[id]]
    /\ alerts' =
         [id \in DOMAIN alerts |->
            IF id \in _get_active_trackings
            THEN _trigger_drawdown_alert(alerts[id], market_tracking[id], read[id],
                                         outcome[id])
            ELSE alerts[id]]
    /\ \A id \in DOMAIN alerts : alerts'[id].T1 <= MaxAlerts /\ alerts'[id].T3 <= MaxAlerts
    /\ UNCHANGED <<runVars, strategyVars, now, db_type, evolverVars, schedulerVars>>

ClosedTracking(tr, updateOk) ==
    IF Truthy(tr.price_t7) /\ Truthy(tr.price_t0) /\ updateOk
    THEN [tr EXCEPT !.status = "closed",
                    !.final_pnl = Some(Ratio(Val(tr.price_t7) - Val(tr.price_t0),
                                             Val(tr.price_t0)))]
    ELSE tr

check_and_close_completed(updateOk) ==
    /\ market_tracking' =
         [id \in DOMAIN market_tracking |->
            IF market_tracking[id].status = "active"
               /\ IsSet(market_tracking[id].t7_timestamp)
            THEN ClosedTracking(market_tracking[id], updateOk[id])
            ELSE market_tracking[id]]
    /\ UNCHANGED <<runVars, strategyVars, now, db_type, alerts, evolverVars, schedulerVars>>

\* --------------------------------------------------------- WeightEvolver
\* A weight is kept in units of 0.0001, the four decimals of
\* round(new_weight, 4).
Features == {"hype_language", "policy_demand", "logical_rigor", "data_support",
             "uncertainty", "source_credibility"}

default_weights ==
    [hype_language |-> -3000, policy_demand |-> 1500, logical_rigor |-> 2500,
     data_support |-> 2000, uncertainty |-> -1500, source_credibility |-> 1500]

\* the range max(-0.5, min(0.5, new_weight)) clamps to
WeightFloor == -5000
WeightCeil == 5000

\* config evolution.min_samples (default 30), here 5
min_samples == 5
\* config evolution.accuracy_threshold, 0.55
accuracy_threshold == Ratio(55, 100)
\* config evolution.max_weight_change, 0.15
max_weight_change == 1500
\* config evolution.decay_factor, 0.9
decay_factor == Ratio(9, 10)
\* the LIMIT of the sample query
SampleLimit == 200
\* ai_score > 60 predicts a rise
ScoreUp == 60
\* a feature needs len(returns) >= 5 to be analysed
MinSupport == 5
\* _log_evolution reports a change above 0.001
LogThreshold == 10

\* a column ai_audit_result: NULL, a string json.loads rejects, or an object
NullAudit == [kind |-> "null"]
MalformedAudit == [kind |-> "malformed"]
DictAudit(score, detected_features) ==
    [kind |-> "dict", score |-> score, detected_features |-> detected_features]

RECURSIVE GCD(_, _)
GCD(a, b) == IF b = 0 THEN a ELSE GCD(b, a % b)

\* x + y, over the least common denominator
RAdd(x, y) ==
    LET d == (x[2] * y[2]) \div GCD(x[2], y[2])
    IN  Ratio(x[1] * (d \div x[2]) + y[1] * (d \div y[2]), d)

RECURSIVE RSum(_)
RSum(returns) ==
    IF returns = <<>> THEN Ratio(0, 1)
    ELSE RAdd(Head(returns), RSum(Tail(returns)))

\* the rows the SELECT of _get_evolution_samples returns, as tracking ids
EvolutionRows ==
    LET ids == [i \in 1..Len(market_tracking) |-> i]
        where(id) ==
            /\ market_tracking[id].news_id \in DOMAIN news
            /\ IsSet(market_tracking[id].t3_timestamp)
            /\ IsSet(market_tracking[id].price_t3)
            /\ db_type = "postgresql" =>
                  \/ market_tracking[id].evolved = NULL
                  \/ market_tracking[id].evolved = Some(FALSE)
        rows == SelectSeq(ids, where)
    IN  SubSeq(rows, 1, IF Len(rows) < SampleLimit THEN Len(rows) ELSE SampleLimit)

_get_evolution_samples(collectOk) ==
    LET kept(id) ==
            /\ Truthy(market_tracking[id].price_t0)
            /\ Truthy(market_tracking[id].price_t3)
            /\ news[market_tracking[id].news_id].kind # "null"
        rows == SelectSeq(EvolutionRows, kept)
        sample(id) ==
            LET tr == market_tracking[id]
                audit_result == news[tr.news_id]
            IN  [row |-> id, news_id |-> tr.news_id, ticker |-> tr.ticker,
                 ai_score |-> audit_result.score,
                 detected_features |-> audit_result.detected_features,
                 actual_return_t3 |-> Ratio(Val(tr.price_t3) - Val(tr.price_t0),
                                            Val(tr.price_t0)),
                 market_regime |-> tr.market_regime]
    IN  IF \/ ~collectOk
           \/ \E i \in DOMAIN rows : news[market_tracking[rows[i]].news_id].kind = "malformed"
        THEN <<>>
        ELSE [i \in DOMAIN rows |-> sample(rows[i])]

\* the number of samples whose score alone predicts a rise
CorrectCountByScore(samples) ==
    Cardinality({i \in DOMAIN samples : samples[i].ai_score > ScoreUp})

\* the number of samples whose predicted direction is the actual one
CorrectCount(samples) ==
    Cardinality({i \in DOMAIN samples :
        (samples[i].ai_score > ScoreUp) = RLt(Percent(1), samples[i].actual_return_t3)})

\* _calculate_accuracy(samples) < accuracy_threshold
AccuracyBelowThreshold(samples) ==
    IF samples = <<>> THEN RLt(Ratio(1, 2), accuracy_threshold)
    ELSE RLt(Ratio(CorrectCount(samples), Len(samples)), accuracy_threshold)

\* per feature with enough support, the correlation 1, -1 or 0
_analyze_feature_performance(samples) ==
    LET listed == UNION {samples[i].detected_features : i \in DOMAIN samples}
        hasFeature(f) == LET has(s) == f \in s.detected_features IN SelectSeq(samples, has)
        returns(f) == [i \in DOMAIN hasFeature(f) |-> hasFeature(f)[i].actual_return_t3]
        avg_return(f) == LET s == RSum(returns(f))
                         IN  Ratio(s[1], s[2] * Len(returns(f)))
    IN  [f \in {g \in listed : Len(hasFeature(g)) >= MinSupport} |->
            IF RLt(Percent(2), avg_return(f)) THEN 1
            ELSE IF RLt(avg_return(f), Percent(-2)) THEN -1 ELSE 0]

Abs(x) == IF x < 0 THEN -x ELSE x

DigitChars == <<"0", "1", "2", "3", "4", "5", "6", "7", "8", "9">>

\* what an f-string or json.dumps makes of a natural number: its decimal digits
RECURSIVE Digits(_)
Digits(n) ==
    IF n < 10 THEN <<DigitChars[n + 1]>>
    ELSE Digits(n \div 10) \o <<DigitChars[(n % 10) + 1]>>

\* json.dumps of one weight, in units of 0.0001: the sign and the decimal digits
NumberText(n) == (IF n < 0 THEN <<"-">> ELSE <<>>) \o Digits(Abs(n))

\* the number a run of decimal digits stands for
RECURSIVE DigitsValue(_)
DigitsValue(text) ==
    IF text = <<>> THEN 0
    ELSE 10 * DigitsValue(SubSeq(text, 1, Len(text) - 1))
         + (CHOOSE d \in 0..9 : DigitChars[d + 1] = text[Len(text)])

\* json.loads of one number
NumberValue(text) ==
    IF Head(text) = "-" THEN -DigitsValue(Tail(text)) ELSE DigitsValue(text)

\* json.dumps(weights): the members of the object, each a name and a number
json_dumps(weights) == {<<f, NumberText(weights[f])>> : f \in DOMAIN weights}

\* json.loads(weights)
json_loads(text) ==
    [f \in {member[1] : member \in text} |->
        NumberValue((CHOOSE member \in text : member[1] = f)[2])]

\* the snapshots ORDER BY evolved_at DESC LIMIT 1 may return: those of the latest
\* evolved_at, whichever of them the store puts first
LatestSnapshots ==
    {i \in DOMAIN weight_evolution_log :
        \A j \in DOMAIN weight_evolution_log :
            weight_evolution_log[j].evolved_at <= weight_evolution_log[i].evolved_at}

\* the vectors _load_current_weights may return
_load_current_weights(loadOk) ==
    IF loadOk /\ weight_evolution_log # <<>>
    THEN {json_loads(weight_evolution_log[i].weights) : i \in LatestSnapshots}
    ELSE {default_weights}

\* the features whose old_weight * decay_factor + adjustment, clamped, lies exactly
\* between two values of four decimals; round() takes either, by the float it got
HalfWay(current_weights, performance) ==
    {f \in DOMAIN current_weights \cap DOMAIN performance :
        LET num == current_weights[f] * decay_factor[1]
                     + performance[f] * max_weight_change * decay_factor[2]
        IN  /\ num > WeightFloor * decay_factor[2]
            /\ num < WeightCeil * decay_factor[2]
            /\ 2 * (num % decay_factor[2]) = decay_factor[2]}

\* the same without the decay of the old weight
NewWeightWithoutDecay(old_weight, correlation, up) ==
    LET moved == old_weight + correlation * max_weight_change
    IN  IF moved < WeightFloor THEN WeightFloor
        ELSE IF moved > WeightCeil THEN WeightCeil ELSE moved

\* max(-0.5, min(0.5, old_weight * decay_factor + adjustment)), rounded to 4 decimals
NewWeight(old_weight, correlation, up) ==
    LET den == decay_factor[2]
        num == old_weight * decay_factor[1] + correlation * max_weight_change * den
        clamped == IF num < WeightFloor * den THEN WeightFloor * den
                   ELSE IF num > WeightCeil * den THEN WeightCeil * den ELSE num
        q == clamped \div den
        r == clamped % den
    IN  IF 2 * r < den THEN q
        ELSE IF 2 * r > den THEN q + 1
        ELSE IF up THEN q + 1 ELSE q

new_weights(current_weights, performance, up) ==
    [f \in DOMAIN current_weights |->
        IF f \in DOMAIN performance
        THEN NewWeight(current_weights[f], performance[f], f \in up)
        ELSE current_weights[f]]

\* NOW() of postgresql and datetime('now') of sqlite at the INSERT: sqlite reads the
\* clock in whole seconds, so a snapshot can carry the evolved_at of the one before
evolved_at(sameSecond) ==
    IF weight_evolution_log = <<>> THEN 1
    ELSE weight_evolution_log[Len(weight_evolution_log)].evolved_at
           + (IF db_type = "sqlite" /\ sameSecond THEN 0 ELSE 1)

\* a save whose row stays in the table although the save failed
SaveLeavesRow(weights, saveOk, sameSecond) ==
    Append(weight_evolution_log,
           [weights |-> json_dumps(weights), evolved_at |-> evolved_at(sameSecond)])

\* the INSERT and its commit are one transaction: a failure leaves the table as it was
_save_weights(weights, saveOk, sameSecond) ==
    IF saveOk
    THEN Append(weight_evolution_log,
                [weights |-> json_dumps(weights), evolved_at |-> evolved_at(sameSecond)])
    ELSE weight_evolution_log

_log_evolution(old_weights, weights, sample_count) ==
    Append(evolution_log,
           [sample_count |-> sample_count,
            changes |-> {key \in DOMAIN weights :
                Abs(weights[key] - (IF key \in DOMAIN old_weights
                                    THEN old_weights[key] ELSE 0)) > LogThreshold}])

_mark_samples_evolved(samples, markOk) ==
    LET news_ids == {samples[i].news_id : i \in DOMAIN samples}
    IN  IF ~markOk THEN market_tracking
        ELSE [id \in DOMAIN market_tracking |->
                IF market_tracking[id].news_id \in news_ids
                THEN [market_tracking[id] EXCEPT !.evolved = Some(TRUE)]
                ELSE market_tracking[id]]

\* InsufficientSamples, had evolve not tested the number of samples
InsufficientSamplesNever(samples) == FALSE

\* len(samples) < self.min_samples
InsufficientSamples(samples) == Len(samples) < min_samples

SampleRows(samples) == {samples[i].row : i \in DOMAIN samples}

\* the message with the required number only
InsufficientMessageWithoutCount(sample_count, required) ==
    <<"insufficient samples: ">> \o Digits(required)

\* f"样本不足: {sample_count}/{self.min_samples}", the fixed text as one token
InsufficientMessage(sample_count, required) ==
    <<"insufficient samples: ">> \o Digits(sample_count) \o <<"/">> \o Digits(required)

should_evolve(collectOk, inWindow) ==
    LET samples == _get_evolution_samples(collectOk)
        sample_count == Len(samples)
        answer ==
            IF ~enabled THEN [value |-> FALSE, reason |-> "disabled", message |-> <<"disabled">>]
            ELSE IF InsufficientSamples(samples)
                 THEN [value |-> FALSE, reason |-> "insufficient",
                       message |-> InsufficientMessage(sample_count, min_samples)]
            ELSE IF AccuracyBelowThreshold(samples)
                 THEN [value |-> TRUE, reason |-> "accuracy", message |-> <<"accuracy below threshold">>]
            ELSE IF inWindow
                 THEN [value |-> TRUE, reason |-> "sunday", message |-> <<"sunday schedule">>]
            ELSE [value |-> FALSE, reason |-> "not_needed", message |-> <<"not needed">>]
    IN  /\ returned' = [op |-> "should_evolve", value |-> answer.value,
                        reason |-> answer.reason, message |-> answer.message,
                        sample_count |-> IF enabled THEN sample_count ELSE 0,
                        min_samples |-> min_samples,
                        collectOk |-> collectOk, inWindow |-> inWindow]
        /\ UNCHANGED <<runVars, strategyVars, now, db_type, market_tracking, alerts, news,
                       weight_evolution_log, evolution_log, enabled, schedulerVars>>

evolve(current_weights, loadOk, collectOk, saveOk, markOk, sameSecond) ==
    \E current \in (IF current_weights = NULL THEN _load_current_weights(loadOk)
                    ELSE {Val(current_weights)}),
       samples \in {_get_evolution_samples(collectOk)} :
        /\ Len(evolution_log) < MaxCycles
        /\ IF InsufficientSamples(samples)
           THEN /\ returned' = [op |-> "evolve", current_weights |-> current_weights, current |-> current,
                                weights |-> current, samples |-> SampleRows(samples),
                                saved |-> FALSE, marked |-> FALSE]
                /\ UNCHANGED <<market_tracking, weight_evolution_log, evolution_log>>
           ELSE \E feature_performance \in {_analyze_feature_performance(samples)} :
                  \E up \in SUBSET HalfWay(current, feature_performance) :
                  \E weights \in {new_weights(current, feature_performance, up)} :
                    /\ weight_evolution_log' = _save_weights(weights, saveOk, sameSecond)
                    /\ evolution_log' = _log_evolution(current, weights, Len(samples))
                    /\ market_tracking' = _mark_samples_evolved(samples, markOk)
                    /\ returned' = [op |-> "evolve",
                                    current_weights |-> current_weights, current |-> current,
                                    weights |-> weights, samples |-> SampleRows(samples),
                                    saved |-> saveOk, marked |-> markOk]
        /\ UNCHANGED <<runVars, strategyVars, now, db_type, alerts, news, enabled, schedulerVars>>

\* ----------------------------------------------------- TrackingScheduler
\* A row of tracking_tasks; every ticker of one create_tracking call carries the
\* tracking_id generated for the call.
NewTask(tracking_id, news_id, ticker_code, t0_price, t0_timestamp) ==
    [tracking_id |-> tracking_id, news_id |-> news_id, ticker_code |-> ticker_code,
     t0_price |-> t0_price, t0_timestamp |-> t0_timestamp,
     expected_close_date |-> t0_timestamp + duration_days, status |-> "active"]

\* a tracking_id no row carries yet
_generate_tracking_id ==
    Cardinality({tracking_tasks[i].tracking_id : i \in DOMAIN tracking_tasks}
                \cup {price_history[i].tracking_id : i \in DOMAIN price_history}) + 1

\* the time column of the rows one invocation writes: later than every row before;
\* the rows of one invocation may carry the same time
InvocationTime ==
    LET times == {price_history[i].time : i \in DOMAIN price_history} \cup {0}
    IN  (CHOOSE t \in times : \A u \in times : u <= t) + 1

_save_price_history(history, tracking_id, ticker_code, price, offset, time) ==
    Append(history, [tracking_id |-> tracking_id, ticker_code |-> ticker_code,
                     price |-> price, day_offset |-> offset, time |-> time])

CreateOutcomes == {"ok", "insert_fails", "history_fails"}

\* the tables after the iterations i.. of the loop of create_tracking
RECURSIVE SchedulerInserts(_, _, _, _, _, _, _)
SchedulerInserts(tables, tracking_id, news_id, tickers, read, outcome, i) ==
    IF i > Len(tickers) THEN tables
    ELSE LET t0_price == _get_current_price(read[i])
             task == NewTask(tracking_id, news_id, tickers[i], t0_price, now)
             after ==
                IF outcome[i] = "insert_fails" THEN tables
                ELSE IF outcome[i] = "history_fails"
                     THEN [tables EXCEPT !.tasks = Append(@, task)]
                ELSE [tasks |-> Append(tables.tasks, task),
                      history |-> _save_price_history(tables.history, tracking_id,
                                      tickers[i], t0_price, 0, InvocationTime)]
         IN  SchedulerInserts(after, tracking_id, news_id, tickers, read, outcome, i + 1)

TrackingScheduler_create_tracking(news_id, tickers, read, outcome) ==
    LET tables == SchedulerInserts([tasks |-> tracking_tasks, history |-> price_history],
                                   _generate_tracking_id, news_id, tickers, read,
                                   outcome, 1)
    IN  /\ Len(tables.tasks) <= MaxRows
        /\ Len(tables.history) <= MaxHistory
        /\ now + duration_days < MaxDay
        /\ tracking_tasks' = tables.tasks
        /\ price_history' = tables.history
        /\ UNCHANGED <<runVars, strategyVars, now, db_type, market_tracking, alerts, evolverVars, closed_log>>

get_active_trackings ==
    {id \in DOMAIN tracking_tasks : tracking_tasks[id].status = "active"}

\* price_history after the iterations of the loop of update_all_prices for the
\* active rows i..; with sqlite the column t0_timestamp is read back as text, and
\* t0_timestamp.date() raises in every iteration
RECURSIVE SchedulerUpdates(_, _, _, _, _)
SchedulerUpdates(history, read, saveOk, time, i) ==
    IF i > Len(tracking_tasks) THEN history
    ELSE SchedulerUpdates(
            IF i \in get_active_trackings /\ db_type = "postgresql" /\ saveOk[i]
            THEN _save_price_history(history, tracking_tasks[i].tracking_id,
                                     tracking_tasks[i].ticker_code,
                                     _get_current_price(read[i]),
                                     Date(now) - Date(tracking_tasks[i].t0_timestamp),
                                     time)
            ELSE history,
            read, saveOk, time, i + 1)

TrackingScheduler_update_all_prices(read, saveOk) ==
    LET history == SchedulerUpdates(price_history, read, saveOk, InvocationTime, 1)
    IN  /\ Len(history) <= MaxHistory
        /\ price_history' = history
        /\ UNCHANGED <<runVars, strategyVars, now, db_type, market_tracking, alerts, evolverVars,
                       tracking_tasks, closed_log>>

\* what _get_latest_price may return: with postgresql the function ends without a
\* return statement, hence None; with sqlite the price of a latest row of the
\* tracking_id, or 0.0 when it has no row
_get_latest_price(tracking_id) ==
    LET rows == {i \in DOMAIN price_history : price_history[i].tracking_id = tracking_id}
        latest == {i \in rows : \A j \in rows : price_history[j].time <= price_history[i].time}
    IN  IF db_type = "postgresql" THEN {NULL}
        ELSE IF rows = {} THEN {Some(0)}
        ELSE {Some(price_history[i].price) : i \in latest}

\* the rows the SELECT of check_and_close_completed returns; with sqlite the stored
\* text 'YYYY-MM-DD HH:MM:SS' is compared with the text 'YYYY-MM-DD' of date('now')
\* and is <= it only for an earlier day
completed_tasks ==
    {id \in DOMAIN tracking_tasks :
        /\ tracking_tasks[id].status = "active"
        /\ IF db_type = "postgresql"
           THEN Date(tracking_tasks[id].expected_close_date) <= Date(now)
           ELSE Date(tracking_tasks[id].expected_close_date) < Date(now)}

\* whether the iteration for one task reaches its log line: pnl is computed
\* and the UPDATE succeeds
ClosesTask(id, final_price, updateOk) ==
    /\ final_price # NULL
    /\ tracking_tasks[id].t0_price # 0
    /\ updateOk

TrackingScheduler_check_and_close_completed(final_price, updateOk) ==
    LET closing == {id \in completed_tasks : ClosesTask(id, final_price[id], updateOk[id])}
        tracking_ids == {tracking_tasks[id].tracking_id : id \in closing}
        order == SelectSeq([i \in 1..Len(tracking_tasks) |-> i],
                           LAMBDA id : id \in closing)
    IN  /\ tracking_tasks' =
              [id \in DOMAIN tracking_tasks |->
                IF tracking_tasks[id].tracking_id \in tracking_ids
                THEN [tracking_tasks[id] EXCEPT !.status = "closed"]
                ELSE tracking_tasks[id]]
        /\ closed_log' = closed_log \o
              [k \in DOMAIN order |->
                [tracking_id |-> tracking_tasks[order[k]].tracking_id,
                 ticker_code |-> tracking_tasks[order[k]].ticker_code,
                 final_price |-> Val(final_price[order[k]])]]
        /\ UNCHANGED <<runVars, strategyVars, now, db_type, market_tracking, alerts, evolverVars, price_history>>

\* ------------------------------------------------ StrategyUpdater
\* Weights are integers in hundredths (the code rounds every stored weight to 2
\* decimals), returns are in basis points, correction signals in tenths.

\* DynamicConfig(): the weights, the learning rate and the empty history
DynamicConfig ==
    [weights |-> [hype_language |-> -2000, policy_demand |-> 1500, uncertainty |-> -3000,
                  logical_rigor |-> 2500, data_support |-> 2000],
     learning_rate |-> Ratio(1, 10),
     update_history |-> <<>>]

MarketFeedback(news_id, ai_audit_score, detected_features, actual_return_t3, market_regime) ==
    [news_id |-> news_id, ai_audit_score |-> ai_audit_score, detected_features |-> detected_features,
     actual_return_t3 |-> actual_return_t3, market_regime |-> market_regime]

\* a move of more than 2% up or down carries a signal
BigMove == 200
\* the score that separates a low audit score from a high one
MidScore == 50
\* the signal when the audit score was on the wrong side, and when it was not
StrongSignal == 50
WeakSignal == 20
BullFactor == Ratio(12, 10)
BearFactor == Ratio(8, 10)
\* the range every updated weight is limited to
StrategyFloor == -5000
StrategyCeil == 5000
\* a change is written to the update log when it is larger than 0.1
StrategyLogThreshold == 10
\* hundredths of a weight per tenth of a signal
SignalScale == 10

\* a signal only where the audit score was on the wrong side of the move
StrongSignalOnly(feedback) ==
    LET base == IF feedback.actual_return_t3 > BigMove /\ feedback.ai_audit_score < MidScore
                THEN StrongSignal
                ELSE IF feedback.actual_return_t3 < -BigMove /\ feedback.ai_audit_score > MidScore
                THEN -StrongSignal
                ELSE 0
    IN  IF feedback.market_regime = "Bull" THEN (base * BullFactor[1]) \div BullFactor[2]
        ELSE IF feedback.market_regime = "Bear" THEN (base * BearFactor[1]) \div BearFactor[2]
        ELSE base

\* correction_signal of one feedback, as lines 110-132 compute it
correction_signal(feedback) ==
    LET base == IF feedback.actual_return_t3 > BigMove
                THEN (IF feedback.ai_audit_score < MidScore THEN StrongSignal ELSE WeakSignal)
                ELSE IF feedback.actual_return_t3 < -BigMove
                THEN (IF feedback.ai_audit_score > MidScore THEN -StrongSignal ELSE -WeakSignal)
                ELSE 0
    IN  IF feedback.market_regime = "Bull" THEN (base * BullFactor[1]) \div BullFactor[2]
        ELSE IF feedback.market_regime = "Bear" THEN (base * BearFactor[1]) \div BearFactor[2]
        ELSE base

\* the places where the batch lists the feature: <<sample, entry of its detected_features>>
Listings(batch_feedback, feature) ==
    {p \in UNION {{<<i, j>> : j \in DOMAIN batch_feedback[i].detected_features} :
                    i \in DOMAIN batch_feedback} :
        batch_feedback[p[1]].detected_features[p[2]] = feature}

feature_counts(batch_feedback, feature) == Cardinality(Listings(batch_feedback, feature))

\* the sum of n(s) * s over the signals s of a set, n(s) the listings that carry s
RECURSIVE SignalSum(_, _, _)
SignalSum(signals, batch_feedback, listings) ==
    IF signals = {} THEN 0
    ELSE LET s == CHOOSE x \in signals : TRUE
         IN  s * Cardinality({p \in listings : correction_signal(batch_feedback[p[1]]) = s})
             + SignalSum(signals \ {s}, batch_feedback, listings)

weight_deltas(batch_feedback, feature) ==
    LET listings == Listings(batch_feedback, feature)
    IN  SignalSum({correction_signal(batch_feedback[p[1]]) : p \in listings}, batch_feedback, listings)

\* the same without the limits
Unclamped(w) == w

\* max(-50.0, min(50.0, new_w))
Clamp(w) ==
    IF RLt(w, Ratio(StrategyFloor, 1)) THEN Ratio(StrategyFloor, 1)
    ELSE IF RLt(Ratio(StrategyCeil, 1), w) THEN Ratio(StrategyCeil, 1)
    ELSE w

\* a ratio in lowest terms
Reduced(x) == LET g == GCD(Abs(x[1]), x[2]) IN Ratio(x[1] \div g, x[2] \div g)

\* the update with the summed signals in the place of their average
SummedUpdate(cfg, batch_feedback, feature) ==
    LET delta == weight_deltas(batch_feedback, feature)
        lr == cfg.learning_rate
    IN  Reduced(Clamp(Ratio(cfg.weights[feature] * lr[2] + delta * SignalScale * lr[1],
                            lr[2])))

\* new_w of one feature the batch lists: old_w + avg_delta * learning_rate, limited
new_w(cfg, batch_feedback, feature) ==
    LET count == feature_counts(batch_feedback, feature)
        delta == weight_deltas(batch_feedback, feature)
        lr == cfg.learning_rate
    IN  Reduced(Clamp(Ratio(cfg.weights[feature] * count * lr[2] + delta * SignalScale * lr[1],
                            count * lr[2])))

\* round(new_w, 2) where new_w is exactly between two hundredths: the float
\* nearest to such a value may lie on either side of it
StrategyHalfWay(cfg, batch_feedback) ==
    {f \in DOMAIN cfg.weights :
        /\ feature_counts(batch_feedback, f) > 0
        /\ LET w == new_w(cfg, batch_feedback, f) IN 2 * (w[1] % w[2]) = w[2]}

\* round(new_w, 2)
Round2(w, up) ==
    LET floor == w[1] \div w[2]
        rest == w[1] % w[2]
    IN  IF 2 * rest < w[2] THEN floor
        ELSE IF 2 * rest > w[2] THEN floor + 1
        ELSE IF up THEN floor + 1 ELSE floor

\* the entries of update_log: the features whose weight moved by more than 0.1
update_log(cfg, batch_feedback) ==
    {[feature |-> f, old_weight |-> cfg.weights[f], new_weight |-> new_w(cfg, batch_feedback, f),
      sample_count |-> feature_counts(batch_feedback, f)] :
        f \in {g \in DOMAIN cfg.weights :
                 /\ feature_counts(batch_feedback, g) > 0
                 /\ LET w == new_w(cfg, batch_feedback, g)
                    IN  Abs(w[1] - cfg.weights[g] * w[2]) > StrategyLogThreshold * w[2]}}

\* the config after evolve(batch_feedback); up holds the features rounded upwards
Evolved(cfg, batch_feedback, up) ==
    IF batch_feedback = <<>> THEN cfg
    ELSE [cfg EXCEPT
            !.weights = [f \in DOMAIN cfg.weights |->
                            IF feature_counts(batch_feedback, f) > 0
                            THEN Round2(new_w(cfg, batch_feedback, f), f \in up)
                            ELSE cfg.weights[f]],
            !.update_history = Append(@, [timestamp |-> now, batch_size |-> Len(batch_feedback),
                                          updates |-> update_log(cfg, batch_feedback)])]

StrategyUpdater_evolve(batch_feedback) ==
    /\ \E up \in SUBSET StrategyHalfWay(config, batch_feedback) :
          config' = Evolved(config, batch_feedback, up)
    /\ called' = [op |-> "evolve", batch_feedback |-> batch_feedback]
    /\ UNCHANGED <<runVars, now, db_type, market_tracking, alerts, evolverVars, schedulerVars>>

\* get_evolution_summary()
get_evolution_summary ==
    [current_weights |-> config.weights, learning_rate |-> config.learning_rate,
     total_updates |-> Len(config.update_history),
     last_update |-> IF config.update_history # <<>>
                     THEN Some(config.update_history[Len(config.update_history)]) ELSE NULL]

\* ------------------------------------------------------------ AuditEngine
\* The thresholds of _generate_dynamic_instruction, in the unit of the evolver's
\* weights (0.0001): the code compares with -5, -30, 20, 5, -15, -40, 30 and 25.
HypeMomentumAbove == -50000
HypeAlertBelow == -300000
PolicyStrongAbove == 200000
PolicyFatigueBelow == 50000
UncertaintyToleratedAbove == -150000
UncertaintyZeroBelow == -400000
LogicFirstAbove == 300000
DataDrivenAbove == 250000

\* the defaults of w.get(feature, default), in the same unit
InstructionDefaults ==
    [hype_language |-> -200000, policy_demand |-> 150000, uncertainty |-> -300000,
     logical_rigor |-> 250000, data_support |-> 200000]

\* w.get(feature, default)
WeightOrDefault(w, feature) ==
    IF feature \in DOMAIN w THEN w[feature] ELSE InstructionDefaults[feature]

\* the directives _generate_dynamic_instruction derives from the thresholds, by
\* name; the heading, the randomly chosen focus line and the closing note are the
\* same for every vector
_generate_dynamic_instruction(w) ==
    (IF WeightOrDefault(w, "hype_language") > HypeMomentumAbove THEN {"hype_momentum"}
     ELSE IF WeightOrDefault(w, "hype_language") < HypeAlertBelow THEN {"hype_alert"}
     ELSE {})
    \cup (IF WeightOrDefault(w, "policy_demand") > PolicyStrongAbove THEN {"policy_strong"}
          ELSE IF WeightOrDefault(w, "policy_demand") < PolicyFatigueBelow
               THEN {"policy_fatigue"}
          ELSE {})
    \cup (IF WeightOrDefault(w, "uncertainty") > UncertaintyToleratedAbove
          THEN {"uncertainty_tolerated"}
          ELSE IF WeightOrDefault(w, "uncertainty") < UncertaintyZeroBelow
               THEN {"uncertainty_zero"}
          ELSE {})
    \cup (IF WeightOrDefault(w, "logical_rigor") > LogicFirstAbove THEN {"logic_first"} ELSE {})
    \cup (IF WeightOrDefault(w, "data_support") > DataDrivenAbove THEN {"data_driven"} ELSE {})

\* the next calendar day
Tick ==
    /\ now < MaxDay
    /\ now' = now + 1
    /\ UNCHANGED <<runVars, strategyVars, db_type, market_tracking, alerts, evolverVars, schedulerVars>>

CreateTracking ==
    \E news_id \in NewsIds, tickers \in TickerLists, regime \in Regimes :
      \E read \in [1..Len(tickers) -> Reads], insertOk \in [1..Len(tickers) -> BOOLEAN] :
        create_tracking(news_id, tickers, regime, read, insertOk)

UpdateAllPrices ==
    \E read \in [DOMAIN market_tracking -> Reads],
       outcome \in [DOMAIN market_tracking -> Outcomes] :
        update_all_prices(read, outcome)

CheckAndCloseCompleted ==
    \E updateOk \in [DOMAIN market_tracking -> BOOLEAN] :
        check_and_close_completed(updateOk)

Init ==
    /\ now = 0
    /\ db_type = "postgresql"
    /\ market_tracking = <<>>
    /\ alerts = <<>>
    /\ news = [n \in NewsIds |-> NullAudit]
    /\ weight_evolution_log = <<>>
    /\ evolution_log = <<>>
    /\ enabled = TRUE
    /\ returned = [op |-> "none"]
    /\ tracking_tasks = <<>>
    /\ price_history = <<>>
    /\ closed_log = <<>>
    /\ config = DynamicConfig
    /\ called = [op |-> "none"]
    /\ update_run = NoRun
    /\ close_run = NoRun

Next ==
    \/ CreateTracking
    \/ UpdateAllPrices
    \/ CheckAndCloseCompleted
    \/ Tick

Spec == Init /\ [][Next]_vars

\* ---------------------------------------------- the failure-free invocations
UpdateAllPricesOk ==
    \E read \in [DOMAIN market_tracking -> Reads] :
        update_all_prices(read, [id \in DOMAIN market_tracking |-> "ok"])

CheckAndCloseCompletedOk ==
    check_and_close_completed([id \in DOMAIN market_tracking |-> TRUE])

\* The periodic jobs keep being invoked and the days keep passing; the invocations
\* in which nothing fails keep occurring.
FairSpec ==
    /\ Spec
    /\ WF_vars(Tick)
    /\ WF_vars(UpdateAllPricesOk)
    /\ WF_vars(CheckAndCloseCompletedOk)

\* ------------------------------------------------- the scenario of claim C9
\* PriceSource quotes 100 at creation, 97 on day 1, 90 on day 3 and 110 on day 7
ScenarioQuote(d) ==
    IF d = T1Offset THEN 97 ELSE IF d = T3Offset THEN 90
    ELSE IF d = T7Offset THEN 110 ELSE FallbackPrice

ScenarioCreate ==
    \E news_id \in NewsIds, regime \in Regimes, insertOk \in BOOLEAN :
        create_tracking(news_id, <<"600000.SH">>, regime,
                        <<Some(ScenarioQuote(0))>>, <<insertOk>>)

ScenarioUpdate ==
    \E outcome \in [DOMAIN market_tracking -> Outcomes] :
        update_all_prices(
            [id \in DOMAIN market_tracking |->
                Some(ScenarioQuote(day_offset(market_tracking[id])))],
            outcome)

ScenarioNext ==
    \/ ScenarioCreate
    \/ ScenarioUpdate
    \/ CheckAndCloseCompleted
    \/ Tick

ScenarioSpec == Init /\ [][ScenarioNext]_vars

\* --------------------------- the two jobs of the tracker, statement by statement
\* Each job runs in its own process on its own connection, and every statement is
\* committed by itself: a run of update_all_prices and a run of
\* check_and_close_completed interleave between their statements.  A job does not
\* overlap itself.

\* after one iteration: the run without the task, over when no task is left
RunAfter(run, field, id) ==
    IF DOMAIN run[field] = {id} THEN NoRun
    ELSE [pc |-> "loop", tasks |-> [k \in DOMAIN run.tasks \ {id} |-> run.tasks[k]]]

\* active_trackings = self._get_active_trackings(): the rows as they are read
update_begin ==
    /\ update_run.pc = "idle"
    /\ update_run' =
         IF _get_active_trackings = {} THEN NoRun
         ELSE [pc |-> "loop",
               tasks |-> [id \in _get_active_trackings |->
                            [price_t0 |-> market_tracking[id].price_t0,
                             t0_timestamp |-> market_tracking[id].t0_timestamp]]]
    /\ UNCHANGED <<close_run, strategyVars, now, db_type, market_tracking, alerts,
                   evolverVars, schedulerVars>>

\* the rows of active_trackings of the latest t0_timestamp: ORDER BY t0_timestamp DESC
NextTrackings(run) ==
    {id \in DOMAIN run.tasks :
        \A k \in DOMAIN run.tasks :
            Val(run.tasks[k].t0_timestamp) <= Val(run.tasks[id].t0_timestamp)}

\* one iteration of the loop up to the metrics: the snapshot UPDATE, by tracking_id,
\* on the row as it is now, and the alert from the price_t0 read at the start
update_snapshot(id, read, snapshotOk) ==
    /\ update_run.pc = "loop"
    /\ id \in NextTrackings(update_run)
    /\ LET tracking == update_run.tasks[id]
           d == Date(now) - Date(Val(tracking.t0_timestamp))
           outcome == IF snapshotOk THEN "metrics_fail" ELSE "snapshot_fails"
       IN  /\ market_tracking' =
                [market_tracking EXCEPT ![id] = UpdatedTracking(@, read, outcome)]
           /\ alerts' =
                [alerts EXCEPT ![id] =
                    _trigger_drawdown_alert(@, [market_tracking[id] EXCEPT
                                                  !.price_t0 = tracking.price_t0],
                                            read, outcome)]
           /\ alerts'[id].T1 <= MaxAlerts
           /\ alerts'[id].T3 <= MaxAlerts
           /\ update_run' =
                IF d = T7Offset /\ snapshotOk
                THEN [pc |-> "metrics", id |-> id, tasks |-> update_run.tasks]
                ELSE RunAfter(update_run, "tasks", id)
    /\ UNCHANGED <<close_run, strategyVars, now, db_type, evolverVars, schedulerVars>>

\* self._calculate_and_save_metrics(tracking_id): its SELECT and its UPDATE are one
\* transaction
update_metrics(metricsOk) ==
    /\ update_run.pc = "metrics"
    /\ market_tracking' =
         [market_tracking EXCEPT ![update_run.id] =
            IF metricsOk THEN _calculate_and_save_metrics(@) ELSE @]
    /\ update_run' = RunAfter(update_run, "tasks", update_run.id)
    /\ UNCHANGED <<close_run, strategyVars, now, db_type, alerts, evolverVars, schedulerVars>>

\* completed_tasks = cursor.fetchall(): price_t0 and price_t7 as they are read
close_begin ==
    /\ close_run.pc = "idle"
    /\ LET completed ==
              {id \in DOMAIN market_tracking :
                  /\ market_tracking[id].status = "active"
                  /\ IsSet(market_tracking[id].t7_timestamp)}
       IN  close_run' =
             IF completed = {} THEN NoRun
             ELSE [pc |-> "loop",
                   tasks |-> [id \in completed |->
                                [price_t0 |-> market_tracking[id].price_t0,
                                 price_t7 |-> market_tracking[id].price_t7]]]
    /\ UNCHANGED <<update_run, strategyVars, now, db_type, market_tracking, alerts,
                   evolverVars, schedulerVars>>

\* the row after the UPDATE of one iteration: final_pnl from the prices the run read
ClosedFromRead(tr, task, updateOk) ==
    IF Truthy(task.price_t7) /\ Truthy(task.price_t0) /\ updateOk
    THEN [tr EXCEPT !.status = "closed",
                    !.final_pnl = Some(Ratio(Val(task.price_t7) - Val(task.price_t0),
                                             Val(task.price_t0)))]
    ELSE tr

\* one iteration of the loop of check_and_close_completed
close_task(id, updateOk) ==
    /\ close_run.pc = "loop"
    /\ id \in DOMAIN close_run.tasks
    /\ market_tracking' =
         [market_tracking EXCEPT ![id] = ClosedFromRead(@, close_run.tasks[id], updateOk)]
    /\ close_run' = RunAfter(close_run, "tasks", id)
    /\ UNCHANGED <<update_run, strategyVars, now, db_type, alerts, evolverVars, schedulerVars>>

UpdateBegin == update_begin

UpdateSnapshot ==
    \E id \in DOMAIN market_tracking, read \in Reads, snapshotOk \in BOOLEAN :
        update_snapshot(id, read, snapshotOk)

UpdateMetrics == \E metricsOk \in BOOLEAN : update_metrics(metricsOk)

CloseBegin == close_begin

CloseTask ==
    \E id \in DOMAIN market_tracking, updateOk \in BOOLEAN : close_task(id, updateOk)

\* tasks are created while no job runs
CreateBetweenRuns ==
    /\ update_run = NoRun
    /\ close_run = NoRun
    /\ CreateTracking

JobsNext ==
    \/ CreateBetweenRuns
    \/ UpdateBegin
    \/ UpdateSnapshot
    \/ UpdateMetrics
    \/ CloseBegin
    \/ CloseTask
    \/ Tick

JobsSpec == Init /\ [][JobsNext]_vars

\* ------------------------------------------------------ the evolver alone
\* the state of the evolver before its first call
NoCall == [op |-> "none"]

\* news items as audited: n1 always with an audit result, n2 with any column value
NewsTables ==
    {[n \in NewsIds |->
        IF n = "n1" THEN DictAudit(70, {"hype_language", "policy_demand"}) ELSE a] :
     a \in {NullAudit, MalformedAudit, DictAudit(40, {"hype_language"})}}

\* a tracking row three days after its creation: news_id, price_t0 and the read
\* captured at T+3 (NULL: the capture was missed)
RowShapes ==
    <<<<"n1", 100, NULL>>, <<"n1", 100, Some(90)>>, <<"n1", 90, Some(100)>>,
      <<"n2", 100, Some(90)>>>>

RowOf(shape) ==
    LET tr == NewTracking(shape[1], "600000.SH", shape[2], 0, "Neutral")
    IN  IF shape[3] = NULL THEN tr
        ELSE _update_price_snapshot(tr, "price_t3", "t3_timestamp", Val(shape[3]))

\* the tables of NRows rows, up to the order of the rows
TrackingTables ==
    {[id \in 1..NRows |-> RowOf(RowShapes[pick[id]])] :
        pick \in {p \in [1..NRows -> DOMAIN RowShapes] :
                    \A i \in 1..(NRows - 1) : p[i] <= p[i + 1]}}

\* a caller of evolve passes no vector or a vector of its own
CallerWeights ==
    {NULL,
     Some([default_weights EXCEPT !.hype_language = 8000, !.policy_demand = 1505,
                                  !.uncertainty = -8000])}


\* the outcomes of a store access of one call of evolve: the access may fail if the
\* call makes it
MayFail(attempted) == IF attempted THEN BOOLEAN ELSE {TRUE}

\* whether the clock of the store still shows the second of the snapshot before
SameSecond(saves) ==
    IF saves /\ db_type = "sqlite" /\ weight_evolution_log # <<>> THEN BOOLEAN ELSE {FALSE}

\* the gate reads the store unless adaptation is disabled
ShouldEvolve ==
    \E collectOk \in MayFail(enabled), inWindow \in BOOLEAN : should_evolve(collectOk, inWindow)

Evolve ==
    \E current_weights \in CallerWeights, collectOk \in BOOLEAN :
      \E cycle \in {~InsufficientSamples(_get_evolution_samples(collectOk))} :
        \E loadOk \in MayFail(current_weights = NULL),
           saveOk \in MayFail(cycle), markOk \in MayFail(cycle) :
          \E sameSecond \in SameSecond(cycle /\ saveOk) :
            evolve(current_weights, loadOk, collectOk, saveOk, markOk, sameSecond)

EvolverInit ==
    /\ now = T3Offset
    /\ db_type \in {"postgresql", "sqlite"}
    /\ market_tracking \in TrackingTables
    /\ alerts = [id \in 1..NRows |-> NoAlerts]
    /\ news \in NewsTables
    /\ weight_evolution_log = <<>>
    /\ evolution_log = <<>>
    /\ enabled = TRUE
    /\ returned = NoCall
    /\ tracking_tasks = <<>>
    /\ price_history = <<>>
    /\ closed_log = <<>>
    /\ config = DynamicConfig
    /\ called = [op |-> "none"]
    /\ update_run = NoRun
    /\ close_run = NoRun

EvolverNext == Evolve

EvolverSpec == EvolverInit /\ [][EvolverNext]_vars

\* the evolver as main.py drives it: the gate is asked, and a cycle runs with no
\* vector of the caller when the gate has approved it
ScheduledEvolve ==
    /\ returned.op = "should_evolve"
    /\ returned.value
    /\ \E collectOk \in BOOLEAN :
         \E cycle \in {~InsufficientSamples(_get_evolution_samples(collectOk))} :
           \E loadOk \in BOOLEAN, saveOk \in MayFail(cycle), markOk \in MayFail(cycle) :
             \E sameSecond \in SameSecond(cycle /\ saveOk) :
               evolve(NULL, loadOk, collectOk, saveOk, markOk, sameSecond)

GateInit ==
    /\ now = T3Offset
    /\ db_type \in {"postgresql", "sqlite"}
    /\ market_tracking \in TrackingTables
    /\ alerts = [id \in 1..NRows |-> NoAlerts]
    /\ news \in NewsTables
    /\ weight_evolution_log = <<>>
    /\ evolution_log = <<>>
    /\ enabled \in BOOLEAN
    /\ returned = NoCall
    /\ tracking_tasks = <<>>
    /\ price_history = <<>>
    /\ closed_log = <<>>
    /\ config = DynamicConfig
    /\ called = [op |-> "none"]
    /\ update_run = NoRun
    /\ close_run = NoRun

GateNext ==
    \/ ShouldEvolve
    \/ ScheduledEvolve

GateSpec == GateInit /\ [][GateNext]_vars

\* the loop of main.py never ends: it keeps asking the gate
MainLoopSpec == GateSpec /\ WF_vars(GateNext)

\* ------------------------------------------------ the evolver on a store with closed tasks
\* a row of news n1 seven days after its creation, its T+3 capture made on day 3
CapturedRow ==
    [RowOf(<<"n1", 90, Some(100)>>) EXCEPT !.t3_timestamp = Some(T3Offset)]

\* the row after update_all_prices captured T+7 and check_and_close_completed closed it
ClosedRow ==
    ClosedTracking(
        _calculate_and_save_metrics(
            _update_price_snapshot(CapturedRow, "price_t7", "t7_timestamp", 100)),
        TRUE)

\* the tables of NRows rows of which the first k are closed
ArchiveTables ==
    {[id \in 1..NRows |-> IF id <= k THEN ClosedRow ELSE CapturedRow] : k \in 0..NRows}

ArchiveInit ==
    /\ now = T7Offset
    /\ db_type \in {"postgresql", "sqlite"}
    /\ market_tracking \in ArchiveTables
    /\ alerts = [id \in 1..NRows |-> NoAlerts]
    /\ news \in NewsTables
    /\ weight_evolution_log = <<>>
    /\ evolution_log = <<>>
    /\ enabled = TRUE
    /\ returned = NoCall
    /\ tracking_tasks = <<>>
    /\ price_history = <<>>
    /\ closed_log = <<>>
    /\ config = DynamicConfig
    /\ called = [op |-> "none"]
    /\ update_run = NoRun
    /\ close_run = NoRun

ArchiveNext == Evolve

ArchiveSpec == ArchiveInit /\ [][ArchiveNext]_vars

\* ------------------------------------------------ the strategy updater alone
\* the feedback the callers pass: the samples of the tests and their mirror images
FeedbackSamples ==
    {MarketFeedback("test001", 70, <<"policy_demand">>, 300, "Bull"),
     MarketFeedback("test002", 70, <<"uncertainty", "hype_language">>, -500, "Bear"),
     MarketFeedback("test003", 50, <<"logical_rigor", "unlisted_feature">>, 200, "Neutral"),
     MarketFeedback("test004", 30, <<"logical_rigor">>, 500, "Bull")}

Repeat(feedback, n) == [i \in 1..n |-> feedback]

\* the sizes of the batches of test_weight_bounds and test_evolve_bull_market
ExtremeBatchSize == 100
BullBatchSize == 10

TestedBatches ==
    {Repeat(MarketFeedback("test", 10, <<"hype_language">>, 1000, "Bull"), ExtremeBatchSize),
     Repeat(MarketFeedback("test", 30, <<"hype_language">>, 500, "Bull"), BullBatchSize)}

Batches == UNION {[1..n -> FeedbackSamples] : n \in 0..MaxBatch} \cup TestedBatches

\* a batch that moves logical_rigor up and uncertainty down by the largest step
DrillBatch ==
    <<MarketFeedback("drill", 30, <<"logical_rigor">>, 500, "Bull"),
      MarketFeedback("drill", 70, <<"uncertainty">>, -500, "Bull")>>

\* the config after n calls of evolve with the same batch
RECURSIVE Cycles(_, _, _)
Cycles(cfg, batch_feedback, n) ==
    IF n = 0 THEN cfg
    ELSE CHOOSE last \in {Cycles(next, batch_feedback, n - 1) :
                             next \in {Evolved(cfg, batch_feedback, {})}} : TRUE

\* the updater is watched for MaxUpdates calls, from construction and again after
\* WarmupCalls cycles have brought two weights to the limits
Watched ==
    \/ Len(config.update_history) < MaxUpdates
    \/ /\ Len(config.update_history) >= WarmupCalls
       /\ Len(config.update_history) < WarmupCalls + MaxUpdates

StrategyEvolve ==
    \E batch_feedback \in Batches :
        /\ Watched
        /\ StrategyUpdater_evolve(batch_feedback)

StrategyInit ==
    /\ now = 0
    /\ db_type = "postgresql"
    /\ market_tracking = <<>>
    /\ alerts = <<>>
    /\ news = [n \in NewsIds |-> NullAudit]
    /\ weight_evolution_log = <<>>
    /\ evolution_log = <<>>
    /\ enabled = TRUE
    /\ returned = NoCall
    /\ tracking_tasks = <<>>
    /\ price_history = <<>>
    /\ closed_log = <<>>
    /\ config \in {DynamicConfig, Cycles(DynamicConfig, DrillBatch, WarmupCalls)}
    /\ called = [op |-> "none"]
    /\ update_run = NoRun
    /\ close_run = NoRun

StrategyNext == StrategyEvolve

StrategySpec == StrategyInit /\ [][StrategyNext]_vars

\* ------------------------------------------------ the scheduler alone
SchedulerCreateTracking ==
    \E news_id \in {"n1"}, tickers \in TickerLists :
      \E read \in [1..Len(tickers) -> Reads], outcome \in [1..Len(tickers) -> CreateOutcomes] :
        TrackingScheduler_create_tracking(news_id, tickers, read, outcome)

SchedulerUpdateAllPrices ==
    \E read \in [DOMAIN tracking_tasks -> Reads], saveOk \in [DOMAIN tracking_tasks -> BOOLEAN] :
        TrackingScheduler_update_all_prices(read, saveOk)

SchedulerCheckAndCloseCompleted ==
    \E updateOk \in [DOMAIN tracking_tasks -> BOOLEAN] :
      \E final_price \in [DOMAIN tracking_tasks -> UNION {_get_latest_price(tracking_tasks[id].tracking_id) : id \in DOMAIN tracking_tasks}] :
        /\ \A id \in DOMAIN tracking_tasks :
              final_price[id] \in _get_latest_price(tracking_tasks[id].tracking_id)
        /\ TrackingScheduler_check_and_close_completed(final_price, updateOk)

SchedulerInit ==
    /\ now = 0
    /\ db_type \in {"postgresql", "sqlite"}
    /\ market_tracking = <<>>
    /\ alerts = <<>>
    /\ news = [n \in NewsIds |-> NullAudit]
    /\ weight_evolution_log = <<>>
    /\ evolution_log = <<>>
    /\ enabled = TRUE
    /\ returned = NoCall
    /\ tracking_tasks = <<>>
    /\ price_history = <<>>
    /\ closed_log = <<>>
    /\ config = DynamicConfig
    /\ called = [op |-> "none"]
    /\ update_run = NoRun
    /\ close_run = NoRun

SchedulerNext ==
    \/ SchedulerCreateTracking
    \/ SchedulerUpdateAllPrices
    \/ SchedulerCheckAndCloseCompleted
    \/ Tick

SchedulerSpec == SchedulerInit /\ [][SchedulerNext]_vars

\* ================================================================== claims
Checkpoints == {<<"price_t1", "t1_timestamp">>, <<"price_t3", "t3_timestamp">>,
                <<"price_t7", "t7_timestamp">>}

\* the minimum over the captured checkpoints of (price_k - price_t0) / price_t0,
\* capped at 0
MinDeviation(tr) ==
    LET devs == {Drawdown(Val(tr[c[1]]), Val(tr.price_t0)) :
                    c \in {k \in Checkpoints : IsSet(tr[k[1]])}} \cup {Ratio(0, 1)}
    IN  CHOOSE m \in devs : \A x \in devs : ~RLt(x, m)

\* C1: checkpoint capture is idempotent: once a checkpoint of a task is captured,
\* no later invocation changes its stored price or its timestamp.
C1_CaptureOnce ==
    [][\A id \in DOMAIN market_tracking : \A c \in Checkpoints :
          IsSet(market_tracking[id][c[1]]) =>
            /\ market_tracking'[id][c[1]] = market_tracking[id][c[1]]
            /\ market_tracking'[id][c[2]] = market_tracking[id][c[2]]]_vars

\* C2: check_and_close_completed closes a task only if a T+7 price of the task was
\* captured and its expected close date has passed.
C2_ClosesOnlyWithT7Price ==
    [][\A id \in DOMAIN tracking_tasks :
          (tracking_tasks[id].status = "active" /\ tracking_tasks'[id].status = "closed") =>
             /\ \E i \in DOMAIN price_history :
                   /\ price_history[i].tracking_id = tracking_tasks[id].tracking_id
                   /\ price_history[i].ticker_code = tracking_tasks[id].ticker_code
                   /\ price_history[i].day_offset = T7Offset
             /\ Date(tracking_tasks[id].expected_close_date) <= Date(now)]_vars

\* C3: every weight of a vector evolve returns lies in [-0.5, 0.5], whatever the
\* current vector was: the defaults, a stored snapshot or the caller's.
C3_ReturnedWeightsInRange ==
    returned.op = "evolve" =>
        \A f \in DOMAIN returned.weights :
            WeightFloor <= returned.weights[f] /\ returned.weights[f] <= WeightCeil

C5_ConsumedNotRecollected ==
    (returned.op = "evolve" /\ returned.saved /\ returned.marked) =>
        \A id \in returned.samples :
            /\ market_tracking[id].evolved = Some(TRUE)
            /\ id \notin SampleRows(_get_evolution_samples(TRUE))

\* C6: a task is created active, the only status change is active -> closed, and
\* no task is removed.
C6_StatusMachine ==
    [][/\ DOMAIN market_tracking \subseteq DOMAIN market_tracking'
       /\ \A id \in DOMAIN market_tracking :
            market_tracking'[id].status # market_tracking[id].status =>
                /\ market_tracking[id].status = "active"
                /\ market_tracking'[id].status = "closed"
       /\ \A id \in DOMAIN market_tracking' \ DOMAIN market_tracking :
            market_tracking'[id].status = "active"]_vars

C6_Witness ==
    \E id \in DOMAIN market_tracking : market_tracking[id].status = "closed"

\* C7, as claimed: a task whose final_pnl or max_drawdown is set is closed.
C7_MetricsOnlyWhenClosed ==
    \A id \in DOMAIN market_tracking :
        (IsSet(market_tracking[id].final_pnl) \/ IsSet(market_tracking[id].max_drawdown))
            => market_tracking[id].status = "closed"

\* C7, amended: a task whose final_pnl or max_drawdown is set holds a captured
\* price_t7 (update_all_prices writes both metrics at the T+7 capture, while the
\* task is still active).
C7_MetricsOnlyAfterT7 ==
    \A id \in DOMAIN market_tracking :
        (IsSet(market_tracking[id].final_pnl) \/ IsSet(market_tracking[id].max_drawdown))
            => /\ IsSet(market_tracking[id].price_t7)
               /\ IsSet(market_tracking[id].t7_timestamp)

C7_Witness ==
    \E id \in DOMAIN market_tracking :
        /\ market_tracking[id].status = "active"
        /\ IsSet(market_tracking[id].final_pnl)
        /\ IsSet(market_tracking[id].max_drawdown)

\* C8: a max_drawdown that is set is <= 0 and equals the minimum over the captured
\* checkpoints of (price_k - price_t0) / price_t0, capped at 0.
C8_MaxDrawdownIsMinimum ==
    \A id \in DOMAIN market_tracking :
        IsSet(market_tracking[id].max_drawdown) =>
            /\ ~RLt(Ratio(0, 1), Val(market_tracking[id].max_drawdown))
            /\ REq(Val(market_tracking[id].max_drawdown),
                   MinDeviation(market_tracking[id]))

\* the task of the scenario, at its end
ScenarioDone(id) ==
    /\ id \in DOMAIN market_tracking
    /\ market_tracking[id].status = "closed"
    /\ IsSet(market_tracking[id].max_drawdown)
    /\ market_tracking[id].price_t1 = Some(97)
    /\ market_tracking[id].price_t3 = Some(90)
    /\ market_tracking[id].price_t7 = Some(110)

ScenarioMetrics(id) ==
    /\ REq(Val(market_tracking[id].max_drawdown), Percent(-10))
    /\ REq(Val(market_tracking[id].final_pnl), Percent(10))

\* C9, as claimed: the scenario 100 / 97 / 90 / 110 ends with max_drawdown = -0.10,
\* final_pnl = +0.10 and an alert raised at the T+1 and at the T+3 capture.
C9_ScenarioAsClaimed ==
    \A id \in 1..MaxTasks : ScenarioDone(id) =>
        /\ ScenarioMetrics(id)
        /\ alerts[id].T1 >= 1
        /\ alerts[id].T3 >= 1

\* C9, amended: the scenario ends with max_drawdown = -0.10, final_pnl = +0.10 and
\* an alert raised at the T+3 capture; the T+1 capture of 97 raises none, the
\* return -0.03 not being below the threshold -0.03.
C9_Scenario ==
    \A id \in 1..MaxTasks : ScenarioDone(id) =>
        /\ ScenarioMetrics(id)
        /\ alerts[id].T1 = 0
        /\ alerts[id].T3 >= 1

C9_Witness == \E id \in 1..MaxTasks : ScenarioDone(id)

\* C10: every task is eventually closed, once the invocations keep coming and
\* nothing fails any more.  (A task whose day_offset has passed 7 without a T+7
\* capture is changed by no later invocation, on the last modelled day as on any
\* day after it.)
C10_EveryTaskCloses ==
    <>[](\A id \in DOMAIN market_tracking : market_tracking[id].status = "closed")

\* C11: starting from the default DynamicConfig, after any sequence of
\* StrategyUpdater.evolve calls, with batches of any size and any returns (the
\* batch of 100 identical extreme samples included), every weight lies in
\* [-50, 50].
C11_StrategyWeightsInRange ==
    \A f \in DOMAIN config.weights :
        StrategyFloor <= config.weights[f] /\ config.weights[f] <= StrategyCeil

\* a watched call has pushed logical_rigor beyond the upper limit and the batch
\* of 100 extreme samples has been passed
C11_Witness ==
    /\ Len(config.update_history) > WarmupCalls
    /\ config.weights.logical_rigor = StrategyCeil
    /\ config.weights.uncertainty = StrategyFloor
    /\ \E i \in DOMAIN config.update_history :
          config.update_history[i].batch_size = ExtremeBatchSize

\* the gating reference on a batch of samples: a sample is correct iff
\* (ai score > 60) equals (actual_return_t3 > 0.01)
GatingReference(samples, inWindow) ==
    LET correct == {i \in DOMAIN samples :
                      (samples[i].ai_score > 60) = RLt(Ratio(1, 100), samples[i].actual_return_t3)}
    IN  IF ~enabled THEN FALSE
        ELSE IF Len(samples) < min_samples THEN FALSE
        ELSE IF RLt(Ratio(Cardinality(correct), Len(samples)), accuracy_threshold) THEN TRUE
        ELSE inWindow

Contains(text, part) ==
    \E i \in 1..(Len(text) - Len(part) + 1) : SubSeq(text, i, i + Len(part) - 1) = part

ListingRows(f) ==
    {id \in returned.samples : f \in news[market_tracking[id].news_id].detected_features}

\* the sum of actual_return_t3 over a set of rows
RECURSIVE ReturnSum(_)
ReturnSum(rows) ==
    IF rows = {} THEN Ratio(0, 1)
    ELSE LET id == CHOOSE x \in rows : TRUE
         IN  RAdd(Ratio(Val(market_tracking[id].price_t3) - Val(market_tracking[id].price_t0),
                        Val(market_tracking[id].price_t0)),
                  ReturnSum(rows \ {id}))

\* c(f): +1 when the mean return of the rows is > 0.02, -1 when it is < -0.02
SignalOf(rows) ==
    LET total == ReturnSum(rows)
        n == Cardinality(rows)
    IN  IF RLt(Ratio(2 * n, 100), total) THEN 1
        ELSE IF RLt(total, Ratio(-2 * n, 100)) THEN -1 ELSE 0

\* clamp(old * 0.9 + c * 0.15), in units of 0.0001
ClampedUpdate(old, c) ==
    LET moved == Ratio(old * 9 + c * 1500 * 10, 10)
    IN  IF RLt(moved, Ratio(-5000, 1)) THEN Ratio(-5000, 1)
        ELSE IF RLt(Ratio(5000, 1), moved) THEN Ratio(5000, 1) ELSE moved

\* the last call of evolve ran a cycle
CycleRan == returned.op = "evolve" /\ Cardinality(returned.samples) >= min_samples

\* C14 as stated: after a cycle on at least min_samples samples the new weight of
\* every feature f of the current vector is clamp(old(f) * decay_factor + c(f) *
\* max_weight_change) if at least 5 samples list f, and old(f) otherwise.
C14_UpdateRuleExact ==
    CycleRan =>
        \A f \in DOMAIN returned.current :
            IF Cardinality(ListingRows(f)) >= 5
            THEN REq(Ratio(returned.weights[f], 1),
                     ClampedUpdate(returned.current[f], SignalOf(ListingRows(f))))
            ELSE returned.weights[f] = returned.current[f]

\* C14, amended: the new weight of a feature that at least 5 samples list is
\* clamp(old(f) * decay_factor + c(f) * max_weight_change) rounded to 4 decimals
\* (it differs from the clamped value by at most 0.00005); the weight of any other
\* feature is old(f).
C14_UpdateRuleRounded ==
    CycleRan =>
        \A f \in DOMAIN returned.current :
            IF Cardinality(ListingRows(f)) >= 5
            THEN LET exact == ClampedUpdate(returned.current[f], SignalOf(ListingRows(f)))
                 IN  2 * Abs(returned.weights[f] * exact[2] - exact[1]) <= exact[2]
            ELSE returned.weights[f] = returned.current[f]

\* a cycle has moved a weight to a value that needed rounding, decayed another
\* one, and left a feature without support as it was
C14_Witness ==
    /\ CycleRan
    /\ Cardinality(ListingRows("policy_demand")) >= 5
    /\ (returned.current.policy_demand * 9) % 10 # 0
    /\ returned.weights.hype_language # returned.current.hype_language
    /\ Cardinality(ListingRows("logical_rigor")) < 5
    /\ returned.weights.logical_rigor = returned.current.logical_rigor

\* C15: a call of StrategyUpdater.evolve with a non-empty batch in which every
\* sample lists the feature f of the weight vector with actual_return_t3 > 0.02
\* leaves the weight of f strictly greater than it was, whenever it was below the
\* upper bound 50.
C15_PositiveEvidenceRaises ==
    [][\A f \in DOMAIN config.weights :
          (/\ called'.batch_feedback # <<>>
           /\ \A i \in DOMAIN called'.batch_feedback :
                 /\ \E j \in DOMAIN called'.batch_feedback[i].detected_features :
                       called'.batch_feedback[i].detected_features[j] = f
                 /\ called'.batch_feedback[i].actual_return_t3 > 200
           /\ config.weights[f] < 5000)
          => config'.weights[f] > config.weights[f]]_vars

\* the tested case: 10 samples listing hype_language with score 30, return +0.05
\* and regime Bull, passed to an updater with the default weights
C15_Witness ==
    /\ called.op = "evolve"
    /\ called.batch_feedback
         = [i \in 1..10 |-> MarketFeedback("test", 30, <<"hype_language">>, 500, "Bull")]
    /\ Len(config.update_history) = 1
    /\ config.weights.hype_language > DynamicConfig.weights.hype_language

\* C16: a weight vector that evolve saved as a snapshot and a fresh WeightEvolver
\* then loads from the same store equals the saved vector feature for feature (so
\* after several saves the load returns the most recently saved vector), and
\* snapshots are only ever appended.
C16_SnapshotRoundTrip ==
    /\ []((returned.op = "evolve" /\ returned.saved)
             => _load_current_weights(TRUE) = {returned.weights})
    /\ [][/\ Len(weight_evolution_log') >= Len(weight_evolution_log)
          /\ SubSeq(weight_evolution_log', 1, Len(weight_evolution_log)) = weight_evolution_log]_vars

\* C17: every call of StrategyUpdater.evolve, a call with an empty batch or with
\* a batch that changes no weight included, appends exactly one record to
\* update_history whose batch_size is the number of samples passed, and leaves the
\* records already there as they are (so total_updates counts the calls).
C17_EveryCallLogged ==
    [][/\ Len(config'.update_history) = Len(config.update_history) + 1
       /\ SubSeq(config'.update_history, 1, Len(config.update_history)) = config.update_history
       /\ config'.update_history[Len(config'.update_history)].batch_size
            = Len(called'.batch_feedback)]_vars

\* C18: in every reachable state and for each checkpoint k in {1, 3, 7}, price_tk
\* of a task is set if and only if its tk timestamp is set: a capture writes both
\* or, when the write fails, neither.
C18_PriceIffTimestamp ==
    \A id \in DOMAIN market_tracking :
        \A cols \in {<<"price_t1", "t1_timestamp">>, <<"price_t3", "t3_timestamp">>,
                     <<"price_t7", "t7_timestamp">>} :
            (market_tracking[id][cols[1]] # NULL) = (market_tracking[id][cols[2]] # NULL)

\* a task whose T+1 capture is stored with its timestamp while its T+3 capture,
\* due days ago, is not there
C18_Witness ==
    \E id \in DOMAIN market_tracking :
        /\ market_tracking[id].price_t1 # NULL
        /\ market_tracking[id].t1_timestamp # NULL
        /\ market_tracking[id].price_t3 = NULL
        /\ market_tracking[id].t3_timestamp = NULL
        /\ now - Val(market_tracking[id].t0_timestamp) > 3

\* C19: once a task is closed its record is immutable: no later invocation, the
\* marking of consumed samples by an evolution cycle included, changes any field
\* of it, the evolved flag included.
C19_ClosedRecordImmutable ==
    [][\A id \in DOMAIN market_tracking :
          market_tracking[id].status = "closed" => market_tracking'[id] = market_tracking[id]]_vars

\* C20: create_tracking persists a task, with status active and price_t0 equal to
\* the price read, for the tickers whose price read succeeded and for no other:
\* a ticker whose read failed is skipped.  (PriceSource quotes the prices of
\* Quotes, so a task whose price_t0 is none of them was persisted for a ticker
\* whose read failed.)
C20_FailedReadSkipped ==
    [][\A id \in DOMAIN market_tracking' :
          id \notin DOMAIN market_tracking =>
              /\ market_tracking'[id].status = "active"
              /\ market_tracking'[id].price_t0 \in {Some(q) : q \in Quotes}]_vars

\* the rows among those the SELECT returns whose audit record resolves to an
\* object and whose prices allow a return to be computed
ResolvableRows ==
    {id \in {EvolutionRows[i] : i \in DOMAIN EvolutionRows} :
        /\ news[market_tracking[id].news_id].kind = "dict"
        /\ Truthy(market_tracking[id].price_t0)
        /\ Truthy(market_tracking[id].price_t3)}

\* C21: a collection of feedback samples that the store serves leaves out the
\* tasks whose audit record is missing or malformed and returns every other
\* eligible task, at most 200 of them (the gate, which collects, is handed that
\* many samples).
C21_MalformedAuditSkipped ==
    (returned.op = "should_evolve" /\ enabled /\ returned.collectOk) =>
        /\ SampleRows(_get_evolution_samples(TRUE)) = ResolvableRows
        /\ returned.sample_count = Cardinality(ResolvableRows)
        /\ returned.sample_count <= SampleLimit

\* the vectors a cycle on the samples of the store computes from a current vector
ComputedVectors(current) ==
    LET performance == _analyze_feature_performance(_get_evolution_samples(TRUE))
    IN  {new_weights(current, performance, up) : up \in SUBSET HalfWay(current, performance)}

\* C22: a cycle of evolve whose snapshot save fails still returns the newly
\* computed vector, and leaves the snapshot history as it was, so that a later
\* load returns what it returned before the cycle.
C22_FailedSaveReturnsVector ==
    [][(returned'.op = "evolve" /\ Cardinality(returned'.samples) >= min_samples
          /\ ~returned'.saved)
        => /\ returned'.weights \in ComputedVectors(returned'.current)
           /\ weight_evolution_log' = weight_evolution_log
           /\ _load_current_weights(TRUE)' = _load_current_weights(TRUE)]_vars

\* after a stored snapshot, a second cycle has failed to save a vector that
\* differs from the one it started from
C22_Witness ==
    /\ returned.op = "evolve"
    /\ Cardinality(returned.samples) >= min_samples
    /\ ~returned.saved
    /\ returned.weights # returned.current
    /\ Len(weight_evolution_log) = 1
    /\ Len(evolution_log) = 2
    /\ returned.weights \notin _load_current_weights(TRUE)

\* C23: in every reachable state, the states inside the interleavings of a run of
\* update_all_prices with a run of check_and_close_completed included, the
\* final_pnl of a closed task equals (price_t7 - price_t0) / price_t0 of the
\* price_t7 and the price_t0 its record holds.
C23_FinalPnlOfHeldPrices ==
    \A id \in DOMAIN market_tracking :
        market_tracking[id].status = "closed" =>
            /\ IsSet(market_tracking[id].final_pnl)
            /\ IsSet(market_tracking[id].price_t7)
            /\ REq(Val(market_tracking[id].final_pnl),
                   Ratio(Val(market_tracking[id].price_t7) - Val(market_tracking[id].price_t0),
                         Val(market_tracking[id].price_t0)))

\* C24: an evolution cycle marks consumed exactly the tracking tasks whose
\* feedback was in the batch it used: when the marking succeeds every task of the
\* batch carries the evolved flag, and the flag of a task that was not in the
\* batch (another ticker of the same news item whose T+3 price is not captured
\* yet, for one) is left as it was.
C24_MarksExactlyTheBatch ==
    [][returned'.op = "evolve" =>
          \A id \in DOMAIN market_tracking :
              IF id \in returned'.samples
              THEN returned'.marked => market_tracking'[id].evolved = Some(TRUE)
              ELSE market_tracking'[id].evolved = market_tracking[id].evolved]_vars

\* C25: feedback samples are marked consumed only by a cycle whose snapshot was
\* persisted: after a cycle whose save failed, the evolved flag of every task of
\* the batch is as it was before the cycle and a later collection returns the
\* task again.
C25_ConsumedOnlyWhenSaved ==
    [][(returned'.op = "evolve" /\ Cardinality(returned'.samples) >= min_samples
          /\ ~returned'.saved)
        => \A id \in returned'.samples :
              /\ market_tracking'[id].evolved = market_tracking[id].evolved
              /\ id \in SampleRows(_get_evolution_samples(TRUE))']_vars

\* C26: in every reachable state every closed task has both final_pnl and
\* max_drawdown set, whatever invocations of update_all_prices and
\* check_and_close_completed, failing ones among them, led to the close.
C26_ClosedHasBothMetrics ==
    \A id \in DOMAIN market_tracking :
        market_tracking[id].status = "closed" =>
            /\ IsSet(market_tracking[id].final_pnl)
            /\ IsSet(market_tracking[id].max_drawdown)

\* the lines check_and_close_completed logs in a step
NewClosedLog == {closed_log'[k] : k \in (Len(closed_log) + 1)..Len(closed_log')}

\* C27: the TrackingScheduler tasks of the tickers of one create_tracking call are
\* independent records: the final price check_and_close_completed computes the PnL
\* of a (news item, ticker) task from is, when prices are recorded for that ticker,
\* one of them, and a task changes to closed only in its own iteration, never by
\* the close of the task of another ticker.
C27_TickerTasksIndependent ==
    [][/\ \A line \in NewClosedLog :
             LET recorded == {i \in DOMAIN price_history :
                                /\ price_history[i].tracking_id = line.tracking_id
                                /\ price_history[i].ticker_code = line.ticker_code}
             IN  recorded # {} =>
                    \E i \in recorded : price_history[i].price = line.final_price
       /\ \A id \in DOMAIN tracking_tasks :
             tracking_tasks'[id].status # tracking_tasks[id].status =>
                 \E line \in NewClosedLog :
                     /\ line.tracking_id = tracking_tasks[id].tracking_id
                     /\ line.ticker_code = tracking_tasks[id].ticker_code]_vars

\* C28: for each task and each alerting checkpoint (T+1, T+3) at most one drawdown
\* alert is raised, however many times update_all_prices is invoked on the day of
\* the checkpoint.
C28_OneAlertPerCheckpoint ==
    \A id \in DOMAIN alerts : alerts[id].T1 <= 1 /\ alerts[id].T3 <= 1

\* the main loop has handed a vector to the audit engine: the result of evolve
Propagated == returned.op = "evolve"

\* the loop has run MaxCycles cycles and handed over a vector unlike the default one
CyclesPropagated ==
    /\ Propagated
    /\ Len(evolution_log) = MaxCycles
    /\ Cardinality(returned.samples) >= min_samples
    /\ returned.weights # default_weights

\* C29: the weights evolve produces and the main loop hands to the audit engine
\* influence the dynamic instruction block: in a run in which cycles change the
\* vector, the loop comes to hand over a vector whose threshold-derived directives
\* differ from those of the default vector (the vector evolve returns while it
\* has nothing to learn from).
C29_DirectivesFollowWeights ==
    <>CyclesPropagated =>
        <>(/\ Propagated
           /\ _generate_dynamic_instruction(returned.weights)
                # _generate_dynamic_instruction(default_weights))

\* every vector the main loop hands over gets the directives of the default vector
C29_DirectivesNeverChange ==
    Propagated =>
        _generate_dynamic_instruction(returned.weights)
            = _generate_dynamic_instruction(default_weights)

\* 6 x learning_rate, in hundredths of a weight
LargestStep == (6 * 100 * config.learning_rate[1]) \div config.learning_rate[2]

\* C30: one call of StrategyUpdater.evolve moves no weight by more than
\* 6 x learning_rate (0.6 with the default learning rate 0.1), for any batch: the
\* correction signal of each sample, scaled for the regime, has a magnitude of
\* at most 5 x 1.2; a feature that no sample lists keeps its weight, and a
\* feature absent from the weight vector is not added to it.
C30_StepBounded ==
    [][/\ DOMAIN config'.weights = DOMAIN config.weights
       /\ \A i \in DOMAIN called'.batch_feedback :
             Abs(correction_signal(called'.batch_feedback[i])) * 10 <= 5 * 12 * 10
       /\ \A f \in DOMAIN config.weights :
             /\ Abs(config'.weights[f] - config.weights[f]) <= LargestStep
             /\ feature_counts(called'.batch_feedback, f) = 0
                   => config'.weights[f] = config.weights[f]]_vars

\* a call has moved logical_rigor by the largest step, 0.6, from its default, and
\* left the weights no sample listed as they were
C30_Witness ==
    /\ called.op = "evolve"
    /\ Len(config.update_history) = 1
    /\ config.weights.logical_rigor = DynamicConfig.weights.logical_rigor + 60
    /\ feature_counts(called.batch_feedback, "policy_demand") = 0
    /\ config.weights.policy_demand = DynamicConfig.weights.policy_demand

====
